---- MODULE Spec2Model ----
(***************************************************************************)
(* Active-workout session engine of lift-state-flow: the useActiveWorkout  *)
(* hook (src/src/hooks/useWorkoutData.ts), the ActiveWorkout screen state  *)
(* machine (src/src/pages/ActiveWorkout.tsx) and the pages that start a    *)
(* session (Home, Routines).                                               *)
(*                                                                         *)
(* An async handler is split at its await: <Handler>Begin runs the code up *)
(* to the awaited IndexedDB write and leaves a record in `inflight` that   *)
(* holds the values the closure captured; <Handler>Resume runs the rest.   *)
(* Synchronous handlers are one action.  Every action ends with the        *)
(* effects React runs after the render (EmptyPhaseEffect).                 *)
(***************************************************************************)
EXTENDS Integers, Sequences, FiniteSets, TLC

VARIABLES
  sessions,               \* IndexedDB store 'sessions'; a session's id is its index
  setEntries,             \* IndexedDB store 'setEntries'; an entry's id is its index
  savedRoutines,          \* IndexedDB store 'routines': the routines added since Init
  storage,                \* localStorage[ACTIVE_WORKOUT_KEY]
  page,                   \* the mounted route
  activeWorkout,          \* useState of the mounted page's useActiveWorkout()
  phase,                  \* ActiveWorkout: useState<WorkoutPhase>
  restTimeLeft,           \* ActiveWorkout: useState(0)
  selectedExerciseForAdd, \* ActiveWorkout: exercise shown in the targets modal
  inflight,               \* async handlers suspended at their await
  notifications,          \* calls of playNotification so far
  prevExerciseIdRef,      \* ActiveWorkout: useRef of the auto-fill effect
  getLastSetCalled,       \* whether the render after the last step called getLastSet
  overlap                 \* steps taken since a handler was first left suspended

vars == <<sessions, setEntries, savedRoutines, storage, page, activeWorkout, phase,
          restTimeLeft, selectedExerciseForAdd, inflight, notifications,
          prevExerciseIdRef, getLastSetCalled, overlap>>

----------------------------------------------------------------------------
(* Bounds of the model *)

MaxSessions == 2      \* sessions ever created (LifecycleSpec)
MaxEngineSessions == 1  \* sessions ever created (Spec)
MaxEntries == 2       \* set entries ever persisted
MaxExercises == 3     \* length of workoutExercises
MaxSets == 2          \* sets chosen in the targets modal
MaxRoutines == 1      \* routines saved from a free workout
MaxInflight == 1      \* handlers suspended at the same time
MaxTaps == 2          \* Complete Set handlers suspended at the same time (DoubleTapSpec)
MaxOverlap == 2       \* user and timer steps while a handler is suspended
MaxRestTime == 33     \* cap on the rest countdown

(* Program constants *)

ExtendRestSeconds == 30
ModalReps == 10           \* ExerciseTargetsModal: useState(10)
ModalDuration == 30       \* ExerciseTargetsModal: useState(30)
RoutineFormReps == 10     \* RoutineForm.addExerciseToRoutine: targetReps
RoutineFormDuration == 30 \* RoutineForm.addExerciseToRoutine: targetDuration

----------------------------------------------------------------------------
(* Values *)

Undefined == [tag |-> "undefined"]   \* undefined, for record-valued places
UndefinedId == "undefined"           \* undefined, for string-valued places
Null == [tag |-> "null"]             \* activeWorkout === null
Absent == [tag |-> "absent"]         \* localStorage.getItem(...) === null
Corrupt == [tag |-> "corrupt"]       \* a stored string JSON.parse rejects

\* A number held by a property that may also be undefined
Num(n) == [tag |-> "number", value |-> n]

Pages == {"home", "routines", "workout"}

\* AppSettings read by the screen (user-configurable; small values here)
settings == [defaultRestBetweenSets |-> 1, defaultRestBetweenExercises |-> 2]

\* The exercise library (useExercises().exercises): id -> type
exercises == [pushup |-> "reps", treadmill |-> "cardio"]

\* exercises.find(e => e.id === id)
FindExercise(id) ==
  IF id \in DOMAIN exercises
    THEN [tag |-> "exercise", id |-> id, type |-> exercises[id]]
    ELSE Undefined

\* RoutineForm.addExerciseToRoutine: the RoutineExercise it builds, with the
\* sets and the rest as the user left them in the form
RoutineExercise(exerciseId, type, sets, rest) ==
  [exerciseId |-> exerciseId,
   targetSets |-> sets,
   targetReps |-> IF type = "reps" THEN Num(RoutineFormReps) ELSE Undefined,
   targetDuration |-> IF type = "time" THEN Num(RoutineFormDuration) ELSE Undefined,
   restBetweenSets |-> rest]

\* The routine library (useRoutines().routines).  RoutineForm.handleSave
\* rejects a routine without exercises.  "deleted" is an exercise that was
\* removed from the library after the routine was written.
routines ==
  { [id |-> "r1",
     exercises |-> << RoutineExercise("pushup", "reps", 2, 1),
                      RoutineExercise("treadmill", "cardio", 2, 0) >>,
     restBetweenExercises |-> 3],
    [id |-> "r2",
     exercises |-> << RoutineExercise("pushup", "reps", 1, 0),
                      RoutineExercise("deleted", "reps", 1, 0) >>,
     restBetweenExercises |-> 0] }

----------------------------------------------------------------------------
(* The snapshot: JSON.stringify / JSON.parse *)

\* Properties of a WorkoutExercise and of a SetEntry that may hold undefined
WorkoutExerciseOptional == {"targetReps", "targetDuration"}
SetEntryOptional == {"reps", "duration", "weight"}

\* JSON.stringify of one object: a property whose value is undefined is left out
StringifyObject(obj, optional) ==
  [f \in DOMAIN obj \ {g \in optional \cap DOMAIN obj : obj[g] = Undefined} |-> obj[f]]

\* Reading the properties of a parsed object: one that is not there reads undefined
ReadObject(obj, optional) ==
  [f \in DOMAIN obj \cup optional |-> IF f \in DOMAIN obj THEN obj[f] ELSE Undefined]

\* JSON.stringify of an array of objects
StringifyArray(arr, optional) ==
  IF arr = <<>> THEN <<>>
  ELSE [i \in 1..Len(arr) |-> StringifyObject(arr[i], optional)]

\* Reading an array of parsed objects
ReadArray(arr, optional) ==
  IF arr = <<>> THEN <<>>
  ELSE [i \in 1..Len(arr) |-> ReadObject(arr[i], optional)]

\* Slip: undefined written as null, as JSON.stringify does inside an array
Serialize_NullForUndefined(state) ==
  LET nulled(obj, optional) ==
        [f \in DOMAIN obj |->
           IF f \in optional /\ obj[f] = Undefined THEN Null ELSE obj[f]]
      sess == IF state.session.routineId = UndefinedId
                THEN [id |-> state.session.id, status |-> state.session.status]
                ELSE [id |-> state.session.id, status |-> state.session.status,
                      routineId |-> state.session.routineId]
      base == [tag |-> "json",
               session |-> sess,
               workoutExercises |->
                 IF state.workoutExercises = <<>> THEN <<>>
                 ELSE [i \in 1..Len(state.workoutExercises) |->
                         nulled(state.workoutExercises[i], WorkoutExerciseOptional)],
               currentExerciseIndex |-> state.currentExerciseIndex,
               currentSetIndex |-> state.currentSetIndex,
               completedSets |->
                 IF state.completedSets = <<>> THEN <<>>
                 ELSE [i \in 1..Len(state.completedSets) |->
                         nulled(state.completedSets[i], SetEntryOptional)],
               isFreeWorkout |-> state.isFreeWorkout]
  IN IF state.routine = Undefined
       THEN base
       ELSE [f \in DOMAIN base \cup {"routine"} |->
               IF f = "routine"
                 THEN [state.routine EXCEPT !.exercises =
                         StringifyArray(@, WorkoutExerciseOptional)]
                 ELSE base[f]]

\* JSON.stringify(state): a property whose value is undefined is left out
Serialize(state) ==
  LET sess == IF state.session.routineId = UndefinedId
                THEN [id |-> state.session.id, status |-> state.session.status]
                ELSE [id |-> state.session.id, status |-> state.session.status,
                      routineId |-> state.session.routineId]
      base == [tag |-> "json",
               session |-> sess,
               workoutExercises |->
                 StringifyArray(state.workoutExercises, WorkoutExerciseOptional),
               currentExerciseIndex |-> state.currentExerciseIndex,
               currentSetIndex |-> state.currentSetIndex,
               completedSets |-> StringifyArray(state.completedSets, SetEntryOptional),
               isFreeWorkout |-> state.isFreeWorkout]
  IN IF state.routine = Undefined
       THEN base
       ELSE [f \in DOMAIN base \cup {"routine"} |->
               IF f = "routine"
                 THEN [state.routine EXCEPT !.exercises =
                         StringifyArray(@, WorkoutExerciseOptional)]
                 ELSE base[f]]

\* Slip: a load that restarts the current exercise at its first set
Parse_RestartsExercise(stored) ==
  [tag |-> "state",
   session |-> [id |-> stored.session.id,
                routineId |-> IF "routineId" \in DOMAIN stored.session
                                THEN stored.session.routineId ELSE UndefinedId,
                status |-> stored.session.status],
   routine |-> IF "routine" \in DOMAIN stored
                 THEN [stored.routine EXCEPT !.exercises =
                         ReadArray(@, WorkoutExerciseOptional)]
                 ELSE Undefined,
   workoutExercises |-> ReadArray(stored.workoutExercises, WorkoutExerciseOptional),
   currentExerciseIndex |-> stored.currentExerciseIndex,
   currentSetIndex |-> 0,
   completedSets |-> ReadArray(stored.completedSets, SetEntryOptional),
   isFreeWorkout |-> stored.isFreeWorkout]

\* JSON.parse(stored): a property that is not there reads as undefined
Parse(stored) ==
  [tag |-> "state",
   session |-> [id |-> stored.session.id,
                routineId |-> IF "routineId" \in DOMAIN stored.session
                                THEN stored.session.routineId ELSE UndefinedId,
                status |-> stored.session.status],
   routine |-> IF "routine" \in DOMAIN stored
                 THEN [stored.routine EXCEPT !.exercises =
                         ReadArray(@, WorkoutExerciseOptional)]
                 ELSE Undefined,
   workoutExercises |-> ReadArray(stored.workoutExercises, WorkoutExerciseOptional),
   currentExerciseIndex |-> stored.currentExerciseIndex,
   currentSetIndex |-> stored.currentSetIndex,
   completedSets |-> ReadArray(stored.completedSets, SetEntryOptional),
   isFreeWorkout |-> stored.isFreeWorkout]

\* The load effect of useActiveWorkout: the state it sets
Load(stored) ==
  IF stored = Absent \/ stored = Corrupt THEN Null ELSE Parse(stored)

\* Slip: the catch block swallowing the error without removeItem
StorageAfterLoad_KeepsCorrupt(stored) ==
  stored

\* The load effect of useActiveWorkout: what it leaves in localStorage
StorageAfterLoad(stored) ==
  IF stored = Corrupt THEN Absent ELSE stored

----------------------------------------------------------------------------
(* Values derived on each render of ActiveWorkout *)

\* activeWorkout?.workoutExercises[activeWorkout.currentExerciseIndex]
CurrentWorkoutExercise(aw) ==
  IF aw = Null THEN Undefined
  ELSE IF aw.currentExerciseIndex + 1 \in DOMAIN aw.workoutExercises
    THEN aw.workoutExercises[aw.currentExerciseIndex + 1]
    ELSE Undefined

CurrentExercise(aw) ==
  IF CurrentWorkoutExercise(aw) = Undefined THEN Undefined
  ELSE FindExercise(CurrentWorkoutExercise(aw).exerciseId)

\* The effect "free workout with no exercises or cardio exercise"
EmptyPhaseEffect(aw, ph) ==
  IF aw # Null /\ Len(aw.workoutExercises) = 0 /\ ph # "complete" THEN "empty"
  ELSE IF aw # Null /\ Len(aw.workoutExercises) > 0 /\ ph = "empty"
    THEN IF CurrentExercise(aw) # Undefined /\ CurrentExercise(aw).type = "cardio"
           THEN "cardio" ELSE "exercise"
  ELSE ph

\* Slip: the last set taken to be the one past targetSets
IsLastSet_OnePast(aw) ==
  aw.currentSetIndex >= CurrentWorkoutExercise(aw).targetSets

IsLastSet(aw) ==
  aw.currentSetIndex >= CurrentWorkoutExercise(aw).targetSets - 1

\* Slip: the last exercise taken to be the one past the end of the list
IsLastExercise_OnePast(aw) ==
  aw.currentExerciseIndex >= Len(aw.workoutExercises)

IsLastExercise(aw) ==
  aw.currentExerciseIndex >= Len(aw.workoutExercises) - 1

\* activeWorkout.routine?.restBetweenExercises || settings.defaultRestBetweenExercises
RestBetweenExercises(aw) ==
  IF aw.routine # Undefined /\ aw.routine.restBetweenExercises # 0
    THEN aw.routine.restBetweenExercises
    ELSE settings.defaultRestBetweenExercises

\* What the render shows
MainScreen == page = "workout" /\ activeWorkout # Null /\ phase \notin {"complete", "empty"}
RestShown == MainScreen /\ phase = "rest"
CardioShown == MainScreen /\ phase = "cardio" /\ CurrentExercise(activeWorkout) # Undefined
ExerciseFormShown == MainScreen /\ ~RestShown /\ ~CardioShown
TargetsModalOpen ==
  page = "workout" /\ activeWorkout # Null /\ phase # "complete"
  /\ selectedExerciseForAdd # UndefinedId

----------------------------------------------------------------------------
(* The hook's primitives *)

\* Mounting the page at route p when localStorage holds st: the hook's load
\* effect, the component's initial useState values, and Home's redirect to
\* /workout when it finds an active workout.
MountPage(p, st) ==
  LET aw == Load(st)
      target == IF p = "home" /\ aw # Null THEN "workout" ELSE p
  IN /\ page' = target
     /\ storage' = StorageAfterLoad(st)
     /\ activeWorkout' = aw
     /\ phase' = IF target = "workout" THEN EmptyPhaseEffect(aw, "exercise") ELSE "exercise"
     /\ restTimeLeft' = 0
     /\ selectedExerciseForAdd' = UndefinedId

\* Handlers whose component has been unmounted: their setState calls are no-ops
Unmounted(hs) == {[h EXCEPT !.live = FALSE] : h \in hs}

\* save(state) called by a handler of the mounted component
Save(state) ==
  /\ storage' = Serialize(state)
  /\ activeWorkout' = state

\* update(updates) for the two cursor fields: { ...activeWorkout, ...updates }
UpdateCursor(aw, exerciseIndex, setIndex) ==
  [aw EXCEPT !.currentExerciseIndex = exerciseIndex, !.currentSetIndex = setIndex]

\* useActiveWorkout.start: the WorkoutSession it creates
NewSession(routineId) ==
  [id |-> Len(sessions) + 1, routineId |-> routineId, status |-> "active"]

\* Slip: the session started without the routine's exercises
StartState_NoExercises(session, routine) ==
  [tag |-> "state",
   session |-> session,
   routine |-> routine,
   workoutExercises |-> <<>>,
   currentExerciseIndex |-> 0,
   currentSetIndex |-> 0,
   completedSets |-> <<>>,
   isFreeWorkout |-> FALSE]

\* Slip: the routine's exercises taken last to first
StartState_Reversed(session, routine) ==
  [tag |-> "state",
   session |-> session,
   routine |-> routine,
   workoutExercises |->
     [i \in DOMAIN routine.exercises |->
        LET ex == routine.exercises[Len(routine.exercises) + 1 - i] IN
          [exerciseId |-> ex.exerciseId,
           targetSets |-> ex.targetSets,
           targetReps |-> ex.targetReps,
           targetDuration |-> ex.targetDuration,
           restBetweenSets |-> ex.restBetweenSets,
           addedDuringWorkout |-> FALSE]],
   currentExerciseIndex |-> 0,
   currentSetIndex |-> 0,
   completedSets |-> <<>>,
   isFreeWorkout |-> FALSE]

\* useActiveWorkout.start: the ActiveWorkoutState it saves
StartState(session, routine) ==
  [tag |-> "state",
   session |-> session,
   routine |-> routine,
   workoutExercises |->
     [i \in DOMAIN routine.exercises |->
        [exerciseId |-> routine.exercises[i].exerciseId,
         targetSets |-> routine.exercises[i].targetSets,
         targetReps |-> routine.exercises[i].targetReps,
         targetDuration |-> routine.exercises[i].targetDuration,
         restBetweenSets |-> routine.exercises[i].restBetweenSets,
         addedDuringWorkout |-> FALSE]],
   currentExerciseIndex |-> 0,
   currentSetIndex |-> 0,
   completedSets |-> <<>>,
   isFreeWorkout |-> FALSE]

\* Slip: startFreeWorkout keeping start's isFreeWorkout: false
FreeState_NotFree(session) ==
  [tag |-> "state",
   session |-> session,
   routine |-> Undefined,
   workoutExercises |-> <<>>,
   currentExerciseIndex |-> 0,
   currentSetIndex |-> 0,
   completedSets |-> <<>>,
   isFreeWorkout |-> FALSE]

\* useActiveWorkout.startFreeWorkout: the ActiveWorkoutState it saves
FreeState(session) ==
  [tag |-> "state",
   session |-> session,
   routine |-> Undefined,
   workoutExercises |-> <<>>,
   currentExerciseIndex |-> 0,
   currentSetIndex |-> 0,
   completedSets |-> <<>>,
   isFreeWorkout |-> TRUE]

\* ExerciseTargetsModal.handleConfirm: the targets it passes to onConfirm,
\* with the reps field left at its initial value
Targets(exerciseId, sets, rest) ==
  [sets |-> IF exercises[exerciseId] = "cardio" THEN 1 ELSE sets,
   reps |-> IF exercises[exerciseId] = "reps" THEN Num(ModalReps) ELSE Undefined,
   duration |-> IF exercises[exerciseId] = "time" THEN Num(ModalDuration) ELSE Undefined,
   rest |-> IF exercises[exerciseId] = "cardio" THEN 0 ELSE rest]

\* Slip: the new exercise pushed onto the routine's own exercises as well
WithExercise_IntoRoutine(aw, exerciseId, targets) ==
  LET added == [exerciseId |-> exerciseId,
                targetSets |-> targets.sets,
                targetReps |-> targets.reps,
                targetDuration |-> targets.duration,
                restBetweenSets |-> targets.rest]
  IN [aw EXCEPT !.workoutExercises =
                  Append(@, [exerciseId |-> exerciseId,
                             targetSets |-> targets.sets,
                             targetReps |-> targets.reps,
                             targetDuration |-> targets.duration,
                             restBetweenSets |-> targets.rest,
                             addedDuringWorkout |-> TRUE]),
                !.routine = IF @ = Undefined THEN @
                            ELSE [@ EXCEPT !.exercises = Append(@, added)]]

\* Slip: the added exercise mapped like a routine exercise (addedDuringWorkout: false)
WithExercise_Unflagged(aw, exerciseId, targets) ==
  [aw EXCEPT !.workoutExercises =
     Append(@, [exerciseId |-> exerciseId,
                targetSets |-> targets.sets,
                targetReps |-> targets.reps,
                targetDuration |-> targets.duration,
                restBetweenSets |-> targets.rest,
                addedDuringWorkout |-> FALSE])]

\* useActiveWorkout.addExerciseToWorkout: the state it saves
WithExercise(aw, exerciseId, targets) ==
  [aw EXCEPT !.workoutExercises =
     Append(@, [exerciseId |-> exerciseId,
                targetSets |-> targets.sets,
                targetReps |-> targets.reps,
                targetDuration |-> targets.duration,
                restBetweenSets |-> targets.rest,
                addedDuringWorkout |-> TRUE])]

\* useActiveWorkout.completeSet: the state it saves
WithEntry(aw, entry) ==
  [aw EXCEPT !.completedSets = Append(@, entry)]

CanSuspend == Cardinality(inflight) < MaxInflight

----------------------------------------------------------------------------
(* Navigation and the environment *)

\* What a page load finds in localStorage: the snapshot as it was written, or,
\* when the stored string has been damaged meanwhile, something unparseable
Found(damaged) ==
  IF damaged /\ storage # Absent THEN Corrupt ELSE storage

\* The browser loads the app at route p: every pending handler is gone
OpenUrl(p, damaged) ==
  /\ MountPage(p, Found(damaged))
  /\ inflight' = {}
  /\ UNCHANGED <<notifications, savedRoutines, sessions, setEntries>>

\* In-app navigation (a Link, the back button): pending handlers keep running
GoTo(p, damaged) ==
  /\ p # page
  /\ MountPage(p, Found(damaged))
  /\ inflight' = Unmounted(inflight)
  /\ UNCHANGED <<notifications, savedRoutines, sessions, setEntries>>

----------------------------------------------------------------------------
(* Session lifecycle *)

\* Home/Routines handleStartRoutine -> start(routine), up to await db.saveSession
StartBegin(routine) ==
  /\ page \in {"home", "routines"}
  /\ CanSuspend
  /\ LET session == NewSession(routine.id) IN
       /\ sessions' = Append(sessions, session)
       /\ inflight' = inflight \cup
            {[op |-> "start", live |-> TRUE, state |-> StartState(session, routine)]}
  /\ UNCHANGED <<notifications, savedRoutines, setEntries, storage, page, activeWorkout, phase, restTimeLeft,
                 selectedExerciseForAdd>>

\* Home handleStartFreeWorkout -> startFreeWorkout(), up to await db.saveSession
StartFreeBegin ==
  /\ page = "home"
  /\ CanSuspend
  /\ LET session == NewSession(UndefinedId) IN
       /\ sessions' = Append(sessions, session)
       /\ inflight' = inflight \cup
            {[op |-> "start", live |-> TRUE, state |-> FreeState(session)]}
  /\ UNCHANGED <<notifications, savedRoutines, setEntries, storage, page, activeWorkout, phase, restTimeLeft,
                 selectedExerciseForAdd>>

\* start / startFreeWorkout after the await: save(state); then navigate('/workout')
StartResume(h) ==
  /\ h \in inflight
  /\ h.op = "start"
  /\ IF page # "workout"
       THEN /\ MountPage("workout", Serialize(h.state))
            /\ inflight' = Unmounted(inflight \ {h})
       ELSE /\ storage' = Serialize(h.state)
            /\ inflight' = inflight \ {h}
            /\ UNCHANGED <<page, activeWorkout, phase, restTimeLeft, selectedExerciseForAdd>>
  /\ UNCHANGED <<notifications, savedRoutines, sessions, setEntries>>

\* Date.now() at the moment end() runs
DateNow == "Date.now()"

\* Slip: end() writing the status without stamping endedAt
EndedSession_NoStamp(session, status) ==
  [id |-> session.id, routineId |-> session.routineId, status |-> status]

\* useActiveWorkout.end: { ...activeWorkout.session, endedAt: Date.now(), status }
EndedSession(session, status) ==
  [id |-> session.id, routineId |-> session.routineId, status |-> status,
   endedAt |-> DateNow]

\* handleEndWorkout / handleAbandonWorkout -> end(status), up to await db.saveSession
EndTap(status) ==
  /\ page = "workout"
  /\ activeWorkout # Null
  /\ ~TargetsModalOpen
  /\ status = "completed" => phase # "empty"
  /\ status = "abandoned" => phase # "complete"
  /\ sessions' = [sessions EXCEPT ![activeWorkout.session.id] =
                    EndedSession(activeWorkout.session, status)]
  /\ inflight' = inflight \cup {[op |-> "end", live |-> TRUE, status |-> status]}
  /\ UNCHANGED <<notifications, savedRoutines, setEntries, storage, page, activeWorkout, phase, restTimeLeft,
                 selectedExerciseForAdd>>

\* An end button tapped while fewer than MaxInflight handlers are suspended
EndBegin(status) ==
  /\ CanSuspend
  /\ EndTap(status)

\* end(status) after the await: save(null); then navigate('/')
EndResume(h) ==
  /\ h \in inflight
  /\ h.op = "end"
  /\ IF page # "home"
       THEN /\ MountPage("home", Absent)
            /\ inflight' = Unmounted(inflight \ {h})
       ELSE /\ storage' = Absent
            /\ inflight' = inflight \ {h}
            /\ UNCHANGED <<page, activeWorkout, phase, restTimeLeft, selectedExerciseForAdd>>
  /\ UNCHANGED <<notifications, savedRoutines, sessions, setEntries>>

\* Slip: only the exercises with a completed set are copied to the routine
RoutineExercises_CompletedOnly(aw) ==
  LET done(we) == \E i \in DOMAIN aw.completedSets :
                    aw.completedSets[i].exerciseId = we.exerciseId
      kept == SelectSeq(aw.workoutExercises, done)
  IN IF kept = <<>> THEN <<>>
     ELSE [i \in 1..Len(kept) |->
             [exerciseId |-> kept[i].exerciseId,
              targetSets |-> kept[i].targetSets,
              targetReps |-> kept[i].targetReps,
              targetDuration |-> kept[i].targetDuration,
              restBetweenSets |-> kept[i].restBetweenSets]]

\* handleSaveAsRoutine: activeWorkout.workoutExercises.map(we => ({ ... }))
RoutineExercises(aw) ==
  IF aw.workoutExercises = <<>> THEN <<>>
  ELSE [i \in 1..Len(aw.workoutExercises) |->
          [exerciseId |-> aw.workoutExercises[i].exerciseId,
           targetSets |-> aw.workoutExercises[i].targetSets,
           targetReps |-> aw.workoutExercises[i].targetReps,
           targetDuration |-> aw.workoutExercises[i].targetDuration,
           restBetweenSets |-> aw.workoutExercises[i].restBetweenSets]]

\* useRoutines.addRoutine: { ...routine, id: uuidv4() } (the uuid is the next
\* free index of the store)
NewRoutine(aw) ==
  [id |-> "saved" \o ToString(Len(savedRoutines) + 1),
   exercises |-> RoutineExercises(aw),
   restBetweenExercises |-> settings.defaultRestBetweenExercises]

\* "Save as Routine" on the complete screen, SaveAsRoutineModal.handleSave ->
\* handleSaveAsRoutine up to await addRoutine -> await db.saveRoutine
SaveAsRoutineBegin ==
  /\ page = "workout"
  /\ activeWorkout # Null
  /\ phase = "complete"
  /\ activeWorkout.isFreeWorkout
  /\ Len(activeWorkout.workoutExercises) > 0
  /\ CanSuspend
  /\ savedRoutines' = Append(savedRoutines, NewRoutine(activeWorkout))
  /\ inflight' = inflight \cup
       {[op |-> "saveAsRoutine", live |-> TRUE, aw |-> activeWorkout]}
  /\ UNCHANGED <<notifications, sessions, setEntries, storage, page, activeWorkout, phase,
                 restTimeLeft, selectedExerciseForAdd>>

\* handleSaveAsRoutine after the await: handleEndWorkout() -> end('completed')
\* up to await db.saveSession, on the activeWorkout the handler closed over
SaveAsRoutineResume(h) ==
  /\ h \in inflight
  /\ h.op = "saveAsRoutine"
  /\ sessions' = [sessions EXCEPT ![h.aw.session.id] =
                    EndedSession(h.aw.session, "completed")]
  /\ inflight' = (inflight \ {h}) \cup
       {[op |-> "end", live |-> h.live, status |-> "completed"]}
  /\ UNCHANGED <<notifications, savedRoutines, setEntries, storage, page, activeWorkout, phase,
                 restTimeLeft, selectedExerciseForAdd>>

----------------------------------------------------------------------------
(* The sequencing engine: handlers of the ActiveWorkout screen *)

\* What a resumed handler of the ActiveWorkout screen leaves behind: the
\* snapshot it saved last, and its setPhase / setRestTimeLeft if its component
\* is still mounted.
ResumeOnWorkout(h, saved, ph, rest) ==
  /\ storage' = Serialize(saved)
  /\ IF h.live
       THEN /\ activeWorkout' = saved
            /\ phase' = EmptyPhaseEffect(saved, ph)
            /\ restTimeLeft' = rest
       ELSE UNCHANGED <<activeWorkout, phase, restTimeLeft>>
  /\ inflight' = inflight \ {h}
  /\ UNCHANGED <<notifications, savedRoutines, sessions, setEntries, page, selectedExerciseForAdd>>

\* What the user typed in the set form (reps) and left empty (weight), and
\* the stopwatch of the cardio view when Complete is tapped
reps == 8
weight == 0
elapsedTime == 0

\* parseInt(x) || undefined, parseFloat(x) || undefined, elapsedTime || undefined
OrUndefined(n) == IF n = 0 THEN Undefined ELSE Num(n)

\* handleCompleteSet: entryData
SetEntryData(aw) ==
  [sessionId |-> aw.session.id,
   exerciseId |-> CurrentExercise(aw).id,
   setIndex |-> aw.currentSetIndex,
   reps |-> IF CurrentExercise(aw).type = "reps" THEN OrUndefined(reps) ELSE Undefined,
   duration |-> Undefined,
   weight |-> OrUndefined(weight)]

\* CardioWorkoutView.handleComplete: entryData
CardioEntryData(aw) ==
  [sessionId |-> aw.session.id,
   exerciseId |-> CurrentExercise(aw).id,
   setIndex |-> 0,
   reps |-> Undefined,
   duration |-> OrUndefined(elapsedTime),
   weight |-> Undefined]

\* The SetEntry completeSet builds: { ...entry, id: uuidv4() } (the uuid is
\* the next free index of the store)
NewEntry(entry) ==
  [id |-> Len(setEntries) + 1,
   sessionId |-> entry.sessionId,
   exerciseId |-> entry.exerciseId,
   setIndex |-> entry.setIndex,
   reps |-> entry.reps,
   duration |-> entry.duration,
   weight |-> entry.weight]

\* handleCompleteSet up to "await completeSet(entryData)" -> await db.saveSetEntry
CompleteSetTap ==
  /\ ExerciseFormShown
  /\ ~TargetsModalOpen
  /\ CurrentExercise(activeWorkout) # Undefined
  /\ LET entry == NewEntry(SetEntryData(activeWorkout)) IN
       /\ setEntries' = Append(setEntries, entry)
       /\ inflight' = inflight \cup
            {[op |-> "completeSet", live |-> TRUE, aw |-> activeWorkout, entry |-> entry]}
  /\ UNCHANGED <<notifications, savedRoutines, sessions, storage, page, activeWorkout, phase, restTimeLeft,
                 selectedExerciseForAdd>>

\* Complete Set tapped while fewer than MaxInflight handlers are suspended
CompleteSetBegin ==
  /\ CanSuspend
  /\ CompleteSetTap

\* Slip: the exercise index not advanced after the last set of an exercise
CompleteSetSaved_SameExercise(aw, entry) ==
  IF IsLastSet(aw) /\ IsLastExercise(aw) THEN WithEntry(aw, entry)
  ELSE IF IsLastSet(aw) THEN UpdateCursor(aw, aw.currentExerciseIndex, 0)
  ELSE UpdateCursor(aw, aw.currentExerciseIndex, aw.currentSetIndex + 1)

\* The snapshot handleCompleteSet has saved when it returns: completeSet's
\* save, then update()'s save from the activeWorkout the handler closed over
CompleteSetSaved(aw, entry) ==
  IF IsLastSet(aw) /\ IsLastExercise(aw) THEN WithEntry(aw, entry)
  ELSE IF IsLastSet(aw) THEN UpdateCursor(aw, aw.currentExerciseIndex + 1, 0)
  ELSE UpdateCursor(aw, aw.currentExerciseIndex, aw.currentSetIndex + 1)

\* The phase handleCompleteSet sets
CompleteSetPhase(aw) ==
  IF IsLastSet(aw) /\ IsLastExercise(aw) THEN "complete" ELSE "rest"

\* The rest time handleCompleteSet sets (rest: the value before the call)
CompleteSetRest(aw, rest) ==
  IF IsLastSet(aw) /\ IsLastExercise(aw) THEN rest
  ELSE IF IsLastSet(aw) THEN RestBetweenExercises(aw)
  ELSE CurrentWorkoutExercise(aw).restBetweenSets

\* handleCompleteSet after the await
CompleteSetResume(h) ==
  /\ h \in inflight
  /\ h.op = "completeSet"
  /\ ResumeOnWorkout(h, CompleteSetSaved(h.aw, h.entry), CompleteSetPhase(h.aw),
                     CompleteSetRest(h.aw, restTimeLeft))

\* CardioWorkoutView.handleComplete -> handleCardioComplete up to the await
CardioCompleteBegin ==
  /\ CardioShown
  /\ ~TargetsModalOpen
  /\ CanSuspend
  /\ LET entry == NewEntry(CardioEntryData(activeWorkout)) IN
       /\ setEntries' = Append(setEntries, entry)
       /\ inflight' = inflight \cup
            {[op |-> "cardioComplete", live |-> TRUE, aw |-> activeWorkout, entry |-> entry]}
  /\ UNCHANGED <<notifications, savedRoutines, sessions, storage, page, activeWorkout, phase, restTimeLeft,
                 selectedExerciseForAdd>>

\* exercises.find(e => e.id === workoutExercises[currentExerciseIndex + 1]?.exerciseId)
NextExercise(aw) ==
  IF aw.currentExerciseIndex + 2 \in DOMAIN aw.workoutExercises
    THEN FindExercise(aw.workoutExercises[aw.currentExerciseIndex + 2].exerciseId)
    ELSE Undefined

\* The snapshot handleCardioComplete has saved when it returns
CardioCompleteSaved(aw, entry) ==
  IF IsLastExercise(aw) THEN WithEntry(aw, entry)
  ELSE UpdateCursor(aw, aw.currentExerciseIndex + 1, 0)

\* The phase handleCardioComplete sets
CardioCompletePhase(aw) ==
  IF IsLastExercise(aw) THEN "complete"
  ELSE IF NextExercise(aw) # Undefined /\ NextExercise(aw).type = "cardio" THEN "cardio"
  ELSE "rest"

\* The rest time handleCardioComplete sets (rest: the value before the call)
CardioCompleteRest(aw, rest) ==
  IF CardioCompletePhase(aw) = "rest" THEN RestBetweenExercises(aw) ELSE rest

\* handleCardioComplete after the await
CardioCompleteResume(h) ==
  /\ h \in inflight
  /\ h.op = "cardioComplete"
  /\ ResumeOnWorkout(h, CardioCompleteSaved(h.aw, h.entry), CardioCompletePhase(h.aw),
                     CardioCompleteRest(h.aw, restTimeLeft))

\* Slip: skipping a set starts the rest timer like completing one
SkipSet_EntersRest ==
  /\ ExerciseFormShown
  /\ ~TargetsModalOpen
  /\ CurrentWorkoutExercise(activeWorkout) # Undefined
  /\ IF IsLastSet(activeWorkout) /\ IsLastExercise(activeWorkout)
       THEN /\ phase' = "complete"
            /\ UNCHANGED <<storage, activeWorkout>>
       ELSE /\ Save(IF IsLastSet(activeWorkout)
                      THEN UpdateCursor(activeWorkout, activeWorkout.currentExerciseIndex + 1, 0)
                      ELSE UpdateCursor(activeWorkout, activeWorkout.currentExerciseIndex,
                                        activeWorkout.currentSetIndex + 1))
            /\ phase' = "rest"
  /\ UNCHANGED <<notifications, savedRoutines, sessions, setEntries, page, restTimeLeft, selectedExerciseForAdd, inflight>>

\* handleSkipSet
SkipSet ==
  /\ ExerciseFormShown
  /\ ~TargetsModalOpen
  /\ CurrentWorkoutExercise(activeWorkout) # Undefined
  /\ IF IsLastSet(activeWorkout) /\ IsLastExercise(activeWorkout)
       THEN /\ phase' = "complete"
            /\ UNCHANGED <<storage, activeWorkout>>
       ELSE /\ Save(IF IsLastSet(activeWorkout)
                      THEN UpdateCursor(activeWorkout, activeWorkout.currentExerciseIndex + 1, 0)
                      ELSE UpdateCursor(activeWorkout, activeWorkout.currentExerciseIndex,
                                        activeWorkout.currentSetIndex + 1))
            /\ UNCHANGED phase
  /\ UNCHANGED <<notifications, savedRoutines, sessions, setEntries, page, restTimeLeft, selectedExerciseForAdd, inflight>>

\* Slip: skipping an exercise keeps the set index of the exercise left behind
SkipExercise_KeepsSetIndex ==
  /\ MainScreen
  /\ ~TargetsModalOpen
  /\ IF IsLastExercise(activeWorkout)
       THEN /\ phase' = "complete"
            /\ UNCHANGED <<storage, activeWorkout>>
       ELSE /\ Save(UpdateCursor(activeWorkout, activeWorkout.currentExerciseIndex + 1,
                                 activeWorkout.currentSetIndex))
            /\ UNCHANGED phase
  /\ UNCHANGED <<notifications, savedRoutines, sessions, setEntries, page, restTimeLeft, selectedExerciseForAdd, inflight>>

\* handleSkipExercise: the header button of the main screen, and the cardio view's onSkip
SkipExercise ==
  /\ MainScreen
  /\ ~TargetsModalOpen
  /\ IF IsLastExercise(activeWorkout)
       THEN /\ phase' = "complete"
            /\ UNCHANGED <<storage, activeWorkout>>
       ELSE /\ Save(UpdateCursor(activeWorkout, activeWorkout.currentExerciseIndex + 1, 0))
            /\ UNCHANGED phase
  /\ UNCHANGED <<notifications, savedRoutines, sessions, setEntries, page, restTimeLeft, selectedExerciseForAdd, inflight>>

\* Slip: handleSkipRest leaving the countdown where it was
SkipRest_KeepsCountdown ==
  /\ RestShown
  /\ ~TargetsModalOpen
  /\ phase' = "exercise"
  /\ UNCHANGED <<notifications, savedRoutines, sessions, setEntries, storage, page, activeWorkout,
                 restTimeLeft, selectedExerciseForAdd, inflight>>

\* handleSkipRest
SkipRest ==
  /\ RestShown
  /\ ~TargetsModalOpen
  /\ restTimeLeft' = 0
  /\ phase' = "exercise"
  /\ UNCHANGED <<notifications, savedRoutines, sessions, setEntries, storage, page, activeWorkout,
                 selectedExerciseForAdd, inflight>>

\* Slip: the +30s button setting the countdown to 30 instead of adding to it
ExtendRest_SetsThirty ==
  /\ RestShown
  /\ ~TargetsModalOpen
  /\ restTimeLeft + ExtendRestSeconds <= MaxRestTime
  /\ restTimeLeft' = ExtendRestSeconds
  /\ UNCHANGED <<notifications, savedRoutines, sessions, setEntries, storage, page, activeWorkout, phase,
                 selectedExerciseForAdd, inflight>>

\* The +30s button: setRestTimeLeft(prev => prev + 30)
ExtendRest ==
  /\ RestShown
  /\ ~TargetsModalOpen
  /\ restTimeLeft + ExtendRestSeconds <= MaxRestTime
  /\ restTimeLeft' = restTimeLeft + ExtendRestSeconds
  /\ UNCHANGED <<notifications, savedRoutines, sessions, setEntries, storage, page, activeWorkout, phase,
                 selectedExerciseForAdd, inflight>>

\* Slip: playNotification called on every firing of the interval
Tick_NotifiesEachSecond ==
  /\ page = "workout"
  /\ phase = "rest"
  /\ restTimeLeft > 0
  /\ IF restTimeLeft <= 1
       THEN /\ phase' = "exercise"
            /\ restTimeLeft' = 0
       ELSE /\ restTimeLeft' = restTimeLeft - 1
            /\ UNCHANGED phase
  /\ notifications' = notifications + 1
  /\ UNCHANGED <<sessions, setEntries, savedRoutines, storage, page, activeWorkout,
                 selectedExerciseForAdd, inflight>>

\* One firing of the rest timer's interval
Tick ==
  /\ page = "workout"
  /\ phase = "rest"
  /\ restTimeLeft > 0
  /\ IF restTimeLeft <= 1
       THEN /\ phase' = "exercise"
            /\ notifications' = notifications + 1
            /\ restTimeLeft' = 0
       ELSE /\ restTimeLeft' = restTimeLeft - 1
            /\ UNCHANGED <<phase, notifications>>
  /\ UNCHANGED <<sessions, setEntries, savedRoutines, storage, page, activeWorkout,
                 selectedExerciseForAdd, inflight>>

----------------------------------------------------------------------------
(* The dynamic exercise injector *)

\* "Add Exercise" -> WorkoutExercisePicker -> handleExerciseSelected
SelectExerciseForAdd(exerciseId) ==
  /\ ExerciseFormShown \/ (page = "workout" /\ activeWorkout # Null /\ phase = "empty")
  /\ ~TargetsModalOpen
  /\ exerciseId \in DOMAIN exercises
  /\ selectedExerciseForAdd' = exerciseId
  /\ UNCHANGED <<notifications, savedRoutines, sessions, setEntries, storage, page, activeWorkout, phase,
                 restTimeLeft, inflight>>

\* ExerciseTargetsModal onClose
CloseTargetsModal ==
  /\ TargetsModalOpen
  /\ selectedExerciseForAdd' = UndefinedId
  /\ UNCHANGED <<notifications, savedRoutines, sessions, setEntries, storage, page, activeWorkout, phase,
                 restTimeLeft, inflight>>

\* Slip: the first exercise of a free workout always shown as a set form
TargetsConfirmedPhase_NoCardio(ph, exerciseId) ==
  IF ph = "empty" THEN "exercise" ELSE ph

\* The phase handleTargetsConfirmed sets
TargetsConfirmedPhase(ph, exerciseId) ==
  IF ph = "empty"
    THEN IF exercises[exerciseId] = "cardio" THEN "cardio" ELSE "exercise"
    ELSE ph

\* ExerciseTargetsModal.handleConfirm -> handleTargetsConfirmed(targets)
TargetsConfirmed(sets, rest) ==
  /\ TargetsModalOpen
  /\ Len(activeWorkout.workoutExercises) < MaxExercises
  /\ LET added == WithExercise(activeWorkout, selectedExerciseForAdd,
                               Targets(selectedExerciseForAdd, sets, rest))
     IN /\ Save(added)
        /\ phase' = EmptyPhaseEffect(added, TargetsConfirmedPhase(phase, selectedExerciseForAdd))
  /\ selectedExerciseForAdd' = UndefinedId
  /\ UNCHANGED <<notifications, savedRoutines, sessions, setEntries, page, restTimeLeft, inflight>>

----------------------------------------------------------------------------
(* The specification *)

\* Rest values the targets modal is confirmed with: rest ?? defaultRest
RestChoices == {settings.defaultRestBetweenSets}

Init ==
  /\ sessions = <<>>
  /\ setEntries = <<>>
  /\ savedRoutines = <<>>
  /\ storage = Absent
  /\ page = "home"
  /\ activeWorkout = Null
  /\ phase = "exercise"
  /\ restTimeLeft = 0
  /\ selectedExerciseForAdd = UndefinedId
  /\ inflight = {}
  /\ notifications = 0
  /\ prevExerciseIdRef = UndefinedId
  /\ getLastSetCalled = FALSE
  /\ overlap = 0

\* Slip: the auto-fill effect without its ref, looking up the last set on
\* every render that follows a change of the cursor
AutoFillEffect_EveryCursorChange(ref) ==
  LET current == IF page' = "workout" THEN CurrentExercise(activeWorkout') ELSE Undefined
  IN IF current # Undefined /\ (current.id # ref \/ activeWorkout' # activeWorkout)
       THEN /\ prevExerciseIdRef' = current.id
            /\ getLastSetCalled' = TRUE
       ELSE /\ prevExerciseIdRef' = ref
            /\ getLastSetCalled' = FALSE

\* The auto-fill effect after the render that follows a step: getLastSet is
\* called when there is a current exercise whose id is not the one in the ref
AutoFillEffect(ref) ==
  LET current == IF page' = "workout" THEN CurrentExercise(activeWorkout') ELSE Undefined
  IN IF current # Undefined /\ current.id # ref
       THEN /\ prevExerciseIdRef' = current.id
            /\ getLastSetCalled' = TRUE
       ELSE /\ prevExerciseIdRef' = ref
            /\ getLastSetCalled' = FALSE

\* The effects of a step's render: a page mounted by the step starts with
\* useRef(null)
Rendered ==
  AutoFillEffect(IF page' # page THEN UndefinedId ELSE prevExerciseIdRef)

\* A step of the user, the timer or the environment.  An awaited IndexedDB
\* write is short: at most MaxOverlap such steps fit before it resolves.
Event(A) ==
  /\ inflight # {} => overlap < MaxOverlap
  /\ A
  /\ overlap' = IF inflight = {} \/ inflight' = {} THEN 0 ELSE overlap + 1
  /\ Rendered

\* A page load or an in-app navigation: the page is mounted anew
Navigation(A) ==
  /\ inflight # {} => overlap < MaxOverlap
  /\ A
  /\ overlap' = IF inflight = {} \/ inflight' = {} THEN 0 ELSE overlap + 1
  /\ AutoFillEffect(UndefinedId)

\* The continuation of a suspended handler
Continuation(A) ==
  /\ A
  /\ overlap' = IF inflight' = {} THEN 0 ELSE overlap
  /\ Rendered

Next ==
  \/ Navigation(\E p \in Pages, damaged \in BOOLEAN : OpenUrl(p, damaged))
  \/ Navigation(\E p \in Pages, damaged \in BOOLEAN : GoTo(p, damaged))
  \/ Event(\E r \in routines : Len(sessions) < MaxEngineSessions /\ StartBegin(r))
  \/ Event(Len(sessions) < MaxEngineSessions /\ StartFreeBegin)
  \/ Continuation(\E h \in inflight : StartResume(h))
  \/ Event(\E status \in {"completed", "abandoned"} : EndBegin(status))
  \/ Continuation(\E h \in inflight : EndResume(h))
  \/ Event(Len(setEntries) < MaxEntries /\ CompleteSetBegin)
  \/ Continuation(\E h \in inflight : CompleteSetResume(h))
  \/ Event(Len(setEntries) < MaxEntries /\ CardioCompleteBegin)
  \/ Continuation(\E h \in inflight : CardioCompleteResume(h))
  \/ Event(SkipSet)
  \/ Event(SkipExercise)
  \/ Event(SkipRest)
  \/ Event(ExtendRest)
  \/ Event(Tick)
  \/ Event(\E e \in DOMAIN exercises : SelectExerciseForAdd(e))
  \/ Event(CloseTargetsModal)
  \/ Event(\E sets \in 1..MaxSets, rest \in RestChoices : TargetsConfirmed(sets, rest))

\* The engine with overlapping handlers, over the sessions of one run (saving
\* the finished workout as a routine is in SeqNext)
Spec == Init /\ [][Next]_vars

\* A step taken while no handler is suspended
Alone(A) ==
  /\ inflight = {}
  /\ A
  /\ overlap' = 0
  /\ Rendered

\* The same operations and saving the finished workout as a routine, each
\* run to completion before the next event
SeqNext ==
  \/ Navigation(inflight = {} /\ \E p \in Pages, damaged \in BOOLEAN : OpenUrl(p, damaged))
  \/ Navigation(inflight = {} /\ \E p \in Pages, damaged \in BOOLEAN : GoTo(p, damaged))
  \/ Alone(\E r \in routines : Len(sessions) < MaxEngineSessions /\ StartBegin(r))
  \/ Alone(Len(sessions) < MaxEngineSessions /\ StartFreeBegin)
  \/ Continuation(\E h \in inflight : StartResume(h))
  \/ Alone(\E status \in {"completed", "abandoned"} : EndBegin(status))
  \/ Continuation(\E h \in inflight : EndResume(h))
  \/ Alone(Len(savedRoutines) < MaxRoutines /\ SaveAsRoutineBegin)
  \/ Continuation(\E h \in inflight : SaveAsRoutineResume(h))
  \/ Alone(Len(setEntries) < MaxEntries /\ CompleteSetBegin)
  \/ Continuation(\E h \in inflight : CompleteSetResume(h))
  \/ Alone(Len(setEntries) < MaxEntries /\ CardioCompleteBegin)
  \/ Continuation(\E h \in inflight : CardioCompleteResume(h))
  \/ Alone(SkipSet)
  \/ Alone(SkipExercise)
  \/ Alone(SkipRest)
  \/ Alone(ExtendRest)
  \/ Alone(Tick)
  \/ Alone(\E e \in DOMAIN exercises : SelectExerciseForAdd(e))
  \/ Alone(CloseTargetsModal)
  \/ Alone(\E sets \in 1..MaxSets, rest \in RestChoices : TargetsConfirmed(sets, rest))

SeqSpec == Init /\ [][SeqNext]_vars

\* Starting, ending and reloading only, over more sessions
LifecycleNext ==
  \/ Navigation(\E p \in Pages, damaged \in BOOLEAN : OpenUrl(p, damaged))
  \/ Navigation(\E p \in Pages, damaged \in BOOLEAN : GoTo(p, damaged))
  \/ Event(\E r \in routines : Len(sessions) < MaxSessions /\ StartBegin(r))
  \/ Event(Len(sessions) < MaxSessions /\ StartFreeBegin)
  \/ Continuation(\E h \in inflight : StartResume(h))
  \/ Event(\E status \in {"completed", "abandoned"} : EndBegin(status))
  \/ Continuation(\E h \in inflight : EndResume(h))
  \/ Event(SkipExercise)

LifecycleSpec == Init /\ [][LifecycleNext]_vars

\* A routine of two exercises of two sets each, with 10 seconds of rest
\* between sets and 30 seconds between exercises
walkthroughRoutine ==
  [id |-> "r3",
   exercises |-> << RoutineExercise("pushup", "reps", 2, 10),
                    RoutineExercise("pushup", "reps", 2, 10) >>,
   restBetweenExercises |-> 30]

\* One session of that routine, worked through with Complete Set and Skip
\* rest (or the countdown) only, each handler run to its end
WalkthroughNext ==
  \/ Alone(Len(sessions) < MaxEngineSessions /\ StartBegin(walkthroughRoutine))
  \/ Continuation(\E h \in inflight : StartResume(h))
  \/ Alone(CompleteSetBegin)
  \/ Continuation(\E h \in inflight : CompleteSetResume(h))
  \/ Alone(SkipRest)
  \/ Alone(Tick)
  \/ Alone(\E status \in {"completed", "abandoned"} : EndBegin(status))
  \/ Continuation(\E h \in inflight : EndResume(h))

WalkthroughSpec == Init /\ [][WalkthroughNext]_vars

\* The entries a caller of the hook passes to completeSet
HookEntries ==
  {[sessionId |-> sid, exerciseId |-> "pushup", setIndex |-> 0,
    reps |-> OrUndefined(reps), duration |-> Undefined, weight |-> OrUndefined(weight)] :
     sid \in 1..MaxSessions}

\* useActiveWorkout.completeSet(entry), called by a component that holds the
\* hook, up to "await db.saveSetEntry(newEntry)"
CompleteSetCallBegin(entry) ==
  /\ CanSuspend
  /\ setEntries' = Append(setEntries, NewEntry(entry))
  /\ inflight' = inflight \cup
       {[op |-> "completeSetCall", live |-> TRUE, aw |-> activeWorkout,
         entry |-> NewEntry(entry)]}
  /\ UNCHANGED <<notifications, savedRoutines, sessions, storage, page, activeWorkout, phase,
                 restTimeLeft, selectedExerciseForAdd>>

\* useActiveWorkout.completeSet after the await: "if (activeWorkout)
\* save(updated)", with the activeWorkout of the render that made the call
CompleteSetCallResume(h) ==
  /\ h \in inflight
  /\ h.op = "completeSetCall"
  /\ IF h.aw # Null
       THEN /\ storage' = Serialize(WithEntry(h.aw, h.entry))
            /\ IF h.live
                 THEN activeWorkout' = WithEntry(h.aw, h.entry)
                 ELSE UNCHANGED activeWorkout
       ELSE UNCHANGED <<storage, activeWorkout>>
  /\ inflight' = inflight \ {h}
  /\ UNCHANGED <<notifications, savedRoutines, sessions, setEntries, page, phase, restTimeLeft,
                 selectedExerciseForAdd>>

\* The hook's operations called one by one by its holder, over two sessions
HookNext ==
  \/ Navigation(\E p \in Pages, damaged \in BOOLEAN : OpenUrl(p, damaged))
  \/ Navigation(\E p \in Pages, damaged \in BOOLEAN : GoTo(p, damaged))
  \/ Event(\E r \in routines : Len(sessions) < MaxSessions /\ StartBegin(r))
  \/ Event(Len(sessions) < MaxSessions /\ StartFreeBegin)
  \/ Continuation(\E h \in inflight : StartResume(h))
  \/ Event(\E status \in {"completed", "abandoned"} : EndBegin(status))
  \/ Continuation(\E h \in inflight : EndResume(h))
  \/ Event(\E entry \in HookEntries :
             Len(setEntries) < MaxEntries /\ CompleteSetCallBegin(entry))
  \/ Continuation(\E h \in inflight : CompleteSetCallResume(h))

HookSpec == Init /\ [][HookNext]_vars

\* One session of a routine in which Complete Set and the end buttons can be
\* tapped again while an earlier tap's handler is still suspended at its await
DoubleTapNext ==
  \/ Event(\E r \in routines : Len(sessions) < MaxEngineSessions /\ StartBegin(r))
  \/ Continuation(\E h \in inflight : StartResume(h))
  \/ Event(/\ Len(setEntries) < MaxEntries
           /\ Cardinality(inflight) < MaxTaps
           /\ CompleteSetTap)
  \/ Continuation(\E h \in inflight : CompleteSetResume(h))
  \/ Event(SkipSet)
  \/ Event(SkipRest)
  \/ Event(Tick)
  \/ Event(\E status \in {"completed", "abandoned"} :
             Cardinality(inflight) < MaxTaps /\ EndTap(status))
  \/ Continuation(\E h \in inflight : EndResume(h))

DoubleTapSpec == Init /\ [][DoubleTapNext]_vars

----------------------------------------------------------------------------
(* Properties *)

\* The transition keeps the session's snapshot in the mounted hook
SameSession ==
  /\ activeWorkout # Null
  /\ activeWorkout' # Null
  /\ activeWorkout'.session.id = activeWorkout.session.id

\* C1 (as stated): while localStorage holds the snapshot of an active session,
\* no step creates a WorkoutSession and no step puts another session's
\* snapshot in its place.
C1_StartRejectedWhileActive ==
  [][storage # Absent =>
       /\ Len(sessions') = Len(sessions)
       /\ (storage' # Absent => storage'.session.id = storage.session.id)]_vars

\* C2 (as stated): the sessions store never holds more than one session whose
\* status is 'active'.
C2_AtMostOneActiveSession ==
  Cardinality({i \in DOMAIN sessions : sessions[i].status = "active"}) <= 1

\* C3 (as stated): a Complete Set or Complete Cardio, run to its end, leaves
\* completedSets one longer than it found it; skipSet, skipExercise, skipRest,
\* extendRest and addExercise leave completedSets as it was.
C3_CompletedSetsCountsCompletions ==
  [][/\ \A h \in inflight :
          (/\ h.op \in {"completeSet", "cardioComplete"}
           /\ h.live
           /\ h.aw = activeWorkout
           /\ CompleteSetResume(h) \/ CardioCompleteResume(h))
            => Len(activeWorkout'.completedSets) = Len(activeWorkout.completedSets) + 1
     /\ (\/ SkipSet
         \/ SkipExercise
         \/ SkipRest
         \/ ExtendRest
         \/ \E sets \in 1..MaxSets, rest \in RestChoices : TargetsConfirmed(sets, rest))
            => activeWorkout'.completedSets = activeWorkout.completedSets]_vars

C5_CompleteSetAdvance ==
  [][\A h \in inflight :
       (h.op = "completeSet" /\ h.live /\ CompleteSetResume(h)) =>
         LET aw == h.aw
             isLastSet ==
               aw.currentSetIndex >=
                 aw.workoutExercises[aw.currentExerciseIndex + 1].targetSets - 1
             isLastExercise == aw.currentExerciseIndex >= Len(aw.workoutExercises) - 1
         IN IF isLastSet /\ isLastExercise
              THEN /\ phase' = "complete"
                   /\ activeWorkout'.currentExerciseIndex = aw.currentExerciseIndex
                   /\ activeWorkout'.currentSetIndex = aw.currentSetIndex
            ELSE IF isLastSet
              THEN /\ phase' = "rest"
                   /\ activeWorkout'.currentExerciseIndex = aw.currentExerciseIndex + 1
                   /\ activeWorkout'.currentSetIndex = 0
            ELSE /\ phase' = "rest"
                 /\ activeWorkout'.currentExerciseIndex = aw.currentExerciseIndex
                 /\ activeWorkout'.currentSetIndex = aw.currentSetIndex + 1]_vars

\* C5: both sets of the first exercise completed; the screen rests before the
\* second exercise for the routine's restBetweenExercises
C5_Witness ==
  /\ page = "workout"
  /\ activeWorkout # Null
  /\ inflight = {}
  /\ phase = "rest"
  /\ activeWorkout.routine # Undefined
  /\ restTimeLeft = activeWorkout.routine.restBetweenExercises
  /\ activeWorkout.currentExerciseIndex = 1
  /\ activeWorkout.currentSetIndex = 0
  /\ Len(setEntries) = 2
  /\ setEntries[2].setIndex = 1

\* C6: handleSkipSet in the phase 'exercise' with sets remaining moves to the
\* next set of the same exercise, writes no SetEntry and leaves the phase
\* 'exercise'; handleCompleteSet invoked with sets remaining sets the phase
\* 'rest'.
C6_SkipSetNoRest ==
  [][/\ (phase = "exercise" /\ SkipSet /\ ~IsLastSet(activeWorkout)) =>
          /\ activeWorkout'.currentSetIndex = activeWorkout.currentSetIndex + 1
          /\ activeWorkout'.currentExerciseIndex = activeWorkout.currentExerciseIndex
          /\ setEntries' = setEntries
          /\ activeWorkout'.completedSets = activeWorkout.completedSets
          /\ phase' = "exercise"
     /\ \A h \in inflight :
          (h.op = "completeSet" /\ h.live /\ ~IsLastSet(h.aw) /\ CompleteSetResume(h))
            => phase' = "rest"]_vars

\* C6: the second set of the first exercise reached with nothing recorded
C6_Witness ==
  /\ page = "workout"
  /\ activeWorkout # Null
  /\ phase = "exercise"
  /\ activeWorkout.currentExerciseIndex = 0
  /\ activeWorkout.currentSetIndex = 1
  /\ setEntries = <<>>

\* C7: handleSkipExercise on an exercise that is not the last moves to set 0
\* of the next exercise, writes no SetEntry and leaves the phase as it was (it
\* starts no rest); on the last exercise it sets the phase 'complete' and
\* leaves the cursor as it was.
C7_SkipExerciseAdvance ==
  [][SkipExercise =>
       /\ setEntries' = setEntries
       /\ activeWorkout'.completedSets = activeWorkout.completedSets
       /\ restTimeLeft' = restTimeLeft
       /\ IF activeWorkout.currentExerciseIndex < Len(activeWorkout.workoutExercises) - 1
            THEN /\ activeWorkout'.currentExerciseIndex =
                      activeWorkout.currentExerciseIndex + 1
                 /\ activeWorkout'.currentSetIndex = 0
                 /\ phase' = phase
            ELSE /\ phase' = "complete"
                 /\ activeWorkout'.currentExerciseIndex = activeWorkout.currentExerciseIndex
                 /\ activeWorkout'.currentSetIndex = activeWorkout.currentSetIndex]_vars

\* C7: the only exercise of a workout, of two sets, skipped at its first set
C7_Witness ==
  /\ page = "workout"
  /\ activeWorkout # Null
  /\ phase = "complete"
  /\ Len(activeWorkout.workoutExercises) = 1
  /\ activeWorkout.workoutExercises[1].targetSets = 2
  /\ activeWorkout.currentExerciseIndex = 0
  /\ activeWorkout.currentSetIndex = 0
  /\ setEntries = <<>>

\* C8: startFreeWorkout leaves an active session without routineId in the
\* store and a snapshot with no routine, no exercises, cursor (0, 0), no
\* completed sets and isFreeWorkout true; the workout screen holding that
\* session is in the phase 'empty'.
C8_FreeWorkoutStartsEmpty ==
  [][\A h \in inflight :
       (h.op = "start" /\ h.state.session.routineId = UndefinedId /\ StartResume(h)) =>
         /\ sessions[h.state.session.id] =
              [id |-> h.state.session.id, routineId |-> UndefinedId, status |-> "active"]
         /\ storage' # Absent
         /\ DOMAIN storage'.session = {"id", "status"}
         /\ "routine" \notin DOMAIN storage'
         /\ storage'.workoutExercises = <<>>
         /\ storage'.currentExerciseIndex = 0
         /\ storage'.currentSetIndex = 0
         /\ storage'.completedSets = <<>>
         /\ storage'.isFreeWorkout = TRUE
         /\ (/\ page' = "workout"
             /\ activeWorkout' # Null
             /\ activeWorkout'.session.id = h.state.session.id)
              => (activeWorkout' = Load(storage') /\ phase' = "empty")]_vars

\* C8: the workout screen on a free workout that was just started
C8_Witness ==
  /\ page = "workout"
  /\ activeWorkout # Null
  /\ inflight = {}
  /\ activeWorkout.isFreeWorkout
  /\ activeWorkout.session.routineId = UndefinedId
  /\ activeWorkout.workoutExercises = <<>>
  /\ phase = "empty"

\* C9: handleTargetsConfirmed in the phase 'empty' leaves one workout
\* exercise, the cursor at (0, 0), and the phase 'cardio' when the added
\* exercise is of type cardio, 'exercise' otherwise.
C9_FirstExerciseSetsPhase ==
  [][(/\ phase = "empty"
      /\ \E sets \in 1..MaxSets, rest \in RestChoices : TargetsConfirmed(sets, rest)) =>
       /\ Len(activeWorkout'.workoutExercises) = 1
       /\ activeWorkout'.workoutExercises[1].exerciseId = selectedExerciseForAdd
       /\ activeWorkout'.currentExerciseIndex = 0
       /\ activeWorkout'.currentSetIndex = 0
       /\ phase' = IF exercises[selectedExerciseForAdd] = "cardio"
                     THEN "cardio" ELSE "exercise"]_vars

\* C9: a free workout whose first exercise, a cardio exercise, was just added
C9_Witness ==
  /\ page = "workout"
  /\ activeWorkout # Null
  /\ activeWorkout.isFreeWorkout
  /\ Len(activeWorkout.workoutExercises) = 1
  /\ exercises[activeWorkout.workoutExercises[1].exerciseId] = "cardio"
  /\ activeWorkout.workoutExercises[1].addedDuringWorkout
  /\ phase = "cardio"
  /\ setEntries = <<>>

\* C10: handleTargetsConfirmed in a phase other than 'empty' appends one
\* WorkoutExercise with addedDuringWorkout true after the ones there, and
\* leaves the cursor, completedSets, the session record and the phase as
\* they were.
C10_AddExerciseAppendsOnly ==
  [][(/\ phase # "empty"
      /\ \E sets \in 1..MaxSets, rest \in RestChoices : TargetsConfirmed(sets, rest)) =>
       LET before == activeWorkout.workoutExercises
           after == activeWorkout'.workoutExercises
       IN /\ Len(after) = Len(before) + 1
          /\ SubSeq(after, 1, Len(before)) = before
          /\ after[Len(after)].exerciseId = selectedExerciseForAdd
          /\ after[Len(after)].addedDuringWorkout = TRUE
          /\ activeWorkout'.currentExerciseIndex = activeWorkout.currentExerciseIndex
          /\ activeWorkout'.currentSetIndex = activeWorkout.currentSetIndex
          /\ activeWorkout'.completedSets = activeWorkout.completedSets
          /\ activeWorkout'.session = activeWorkout.session
          /\ sessions' = sessions
          /\ phase' = phase]_vars

\* C10: a routine session, one set into its first exercise, with an exercise
\* added after the routine's two
C10_Witness ==
  /\ page = "workout"
  /\ activeWorkout # Null
  /\ ~activeWorkout.isFreeWorkout
  /\ Len(activeWorkout.workoutExercises) = 3
  /\ ~activeWorkout.workoutExercises[2].addedDuringWorkout
  /\ activeWorkout.workoutExercises[3].addedDuringWorkout
  /\ activeWorkout.currentSetIndex = 1
  /\ Len(setEntries) = 1

\* C11 (as stated, in the form a finite run refutes): whenever the screen is
\* in the phase 'rest', whatever the assigned duration, the countdown is
\* running: its next tick is due, so that without any user action it reaches
\* zero and the phase leaves 'rest'.
C11_RestCountdownRuns ==
  (page = "workout" /\ activeWorkout # Null /\ phase = "rest") => ENABLED Tick

\* C12: playNotification is called exactly once by the tick that takes the
\* countdown to zero, and by no other step: never by a tick that leaves the
\* countdown above zero, never by skipRest or any other handler.
C12_NotifiedOncePerCountdown ==
  [][/\ (Tick /\ restTimeLeft' = 0) => notifications' = notifications + 1
     /\ notifications' # notifications =>
          /\ Tick
          /\ restTimeLeft' = 0
          /\ phase' = "exercise"
          /\ notifications' = notifications + 1]_vars

\* C12: two rest countdowns have run down to zero
C12_Witness ==
  /\ page = "workout"
  /\ activeWorkout # Null
  /\ phase = "exercise"
  /\ restTimeLeft = 0
  /\ notifications = 2
  /\ Len(setEntries) = 2

\* C13: handleSkipRest sets the remaining rest time to zero and the phase to
\* 'exercise', the phase the last tick of the countdown sets, and leaves the
\* cursor, workoutExercises, completedSets and the stores as they were.
C13_SkipRestEndsRest ==
  [][SkipRest =>
       /\ phase = "rest"
       /\ restTimeLeft' = 0
       /\ phase' = "exercise"
       /\ activeWorkout' = activeWorkout
       /\ storage' = storage
       /\ setEntries' = setEntries
       /\ notifications' = notifications]_vars

\* C13: back on the set form for the second set, the rest after the first
\* set having ended without its notification
C13_Witness ==
  /\ page = "workout"
  /\ activeWorkout # Null
  /\ inflight = {}
  /\ phase = "exercise"
  /\ restTimeLeft = 0
  /\ notifications = 0
  /\ activeWorkout.currentExerciseIndex = 0
  /\ activeWorkout.currentSetIndex = 1
  /\ Len(setEntries) = 1

\* C14: each use of the +30s button in the phase 'rest' adds exactly 30 to
\* the remaining rest time, whatever it was, and leaves the phase 'rest' and
\* the cursor, completedSets and the stores as they were.
C14_ExtendRestAddsThirty ==
  [][ExtendRest =>
       /\ phase = "rest"
       /\ restTimeLeft' = restTimeLeft + 30
       /\ phase' = "rest"
       /\ activeWorkout' = activeWorkout
       /\ storage' = storage
       /\ setEntries' = setEntries]_vars

\* C14: the rest of 3 seconds between two exercises, extended after one tick
C14_Witness ==
  /\ page = "workout"
  /\ activeWorkout # Null
  /\ phase = "rest"
  /\ activeWorkout.currentExerciseIndex = 1
  /\ activeWorkout.currentSetIndex = 0
  /\ RestBetweenExercises(activeWorkout) = 3
  /\ restTimeLeft = 32

\* C15 (as stated): every completion of an exercise of type cardio, by the
\* cardio view or by the set form, persists exactly one SetEntry, with
\* setIndex 0, and moves the cursor to set 0 of the next exercise, or sets the
\* phase 'complete' on the last exercise, whatever the exercise's targetSets.
C15_CardioCompletionAdvances ==
  [][/\ ((CompleteSetBegin \/ CardioCompleteBegin)
           /\ CurrentExercise(activeWorkout).type = "cardio") =>
          /\ Len(setEntries') = Len(setEntries) + 1
          /\ setEntries'[Len(setEntries')].setIndex = 0
     /\ \A h \in inflight :
          (/\ h.op \in {"completeSet", "cardioComplete"}
           /\ h.live
           /\ CurrentExercise(h.aw).type = "cardio"
           /\ CompleteSetResume(h) \/ CardioCompleteResume(h)) =>
            IF h.aw.currentExerciseIndex >= Len(h.aw.workoutExercises) - 1
              THEN /\ phase' = "complete"
                   /\ activeWorkout'.currentExerciseIndex = h.aw.currentExerciseIndex
              ELSE /\ activeWorkout'.currentExerciseIndex = h.aw.currentExerciseIndex + 1
                   /\ activeWorkout'.currentSetIndex = 0]_vars

\* C16 (as stated): after every completion of an exercise of type cardio that
\* is not the last exercise, the phase is 'rest' and the countdown starts from
\* the rest between exercises.
C16_RestAfterCardio ==
  [][\A h \in inflight :
       (/\ h.op \in {"completeSet", "cardioComplete"}
        /\ h.live
        /\ CurrentExercise(h.aw).type = "cardio"
        /\ h.aw.currentExerciseIndex < Len(h.aw.workoutExercises) - 1
        /\ CompleteSetResume(h) \/ CardioCompleteResume(h)) =>
         /\ phase' = "rest"
         /\ restTimeLeft' = RestBetweenExercises(h.aw)]_vars

\* C17 (as stated): once the workout screen is in the phase 'complete', every
\* step that leaves it showing the same session leaves the cursor,
\* workoutExercises and completedSets as they were and the phase 'complete'.
C17_CompleteIsTerminal ==
  [][(phase = "complete" /\ page = "workout" /\ page' = "workout" /\ SameSession) =>
       /\ activeWorkout'.currentExerciseIndex = activeWorkout.currentExerciseIndex
       /\ activeWorkout'.currentSetIndex = activeWorkout.currentSetIndex
       /\ activeWorkout'.workoutExercises = activeWorkout.workoutExercises
       /\ activeWorkout'.completedSets = activeWorkout.completedSets
       /\ phase' = "complete"]_vars

\* C18: end(status) writes the session to the store with that status and an
\* endedAt stamp, leaving the other sessions alone; when it resumes it empties
\* the snapshot slot, so that a load finds no active workout, and the app is
\* on the home page without an active workout.
C18_EndPersistsAndClears ==
  [][/\ \A status \in {"completed", "abandoned"} :
          EndBegin(status) =>
            LET id == activeWorkout.session.id IN
              /\ sessions'[id].id = id
              /\ sessions'[id].routineId = sessions[id].routineId
              /\ sessions'[id].status = status
              /\ "endedAt" \in DOMAIN sessions'[id]
              /\ \A i \in DOMAIN sessions : i # id => sessions'[i] = sessions[i]
     /\ \A h \in inflight :
          (h.op = "end" /\ EndResume(h)) =>
            /\ storage' = Absent
            /\ Load(storage') = Null
            /\ page' = "home"
            /\ activeWorkout' = Null]_vars

\* C18: a workout was abandoned after one completed set
C18_Witness ==
  /\ page = "home"
  /\ inflight = {}
  /\ storage = Absent
  /\ activeWorkout = Null
  /\ Len(setEntries) = 1
  /\ sessions[setEntries[1].sessionId].status = "abandoned"
  /\ "endedAt" \in DOMAIN sessions[setEntries[1].sessionId]

\* C19: with the operations run one after the other, a page load that finds
\* the snapshot as it was written returns exactly the state the last save()
\* was given (the state the hook held), and no active workout after a clear;
\* a started session is loaded by the workout page as start() built it.
C19_LoadReturnsLastSave ==
  [][/\ (\E p \in Pages : OpenUrl(p, FALSE) \/ GoTo(p, FALSE)) =>
          /\ activeWorkout' = activeWorkout
          /\ storage' = storage
          /\ storage = Absent <=> activeWorkout' = Null
     /\ \A h \in inflight :
          (h.op = "start" /\ StartResume(h)) => activeWorkout' = h.state]_vars

\* C19: another page has loaded the snapshot of a free workout with two
\* added exercises, the cursor on the second and one completed set
C19_Witness ==
  /\ page = "routines"
  /\ inflight = {}
  /\ activeWorkout # Null
  /\ activeWorkout.isFreeWorkout
  /\ activeWorkout.routine = Undefined
  /\ Len(activeWorkout.workoutExercises) = 2
  /\ activeWorkout.currentExerciseIndex = 1
  /\ Len(activeWorkout.completedSets) = 1

\* C20: a page load that finds an unparseable snapshot mounts the page all
\* the same, empties the snapshot slot and holds no active workout; the
\* stores are untouched.
C20_CorruptSnapshotDiscarded ==
  [][\A p \in Pages :
       (storage # Absent /\ (OpenUrl(p, TRUE) \/ GoTo(p, TRUE))) =>
         /\ Load(Found(TRUE)) = Null
         /\ storage' = Absent
         /\ activeWorkout' = Null
         /\ page' = p
         /\ sessions' = sessions
         /\ setEntries' = setEntries]_vars

\* C20: the workout page holds no active workout and the slot is empty,
\* while the session that has a persisted set is still 'active' in the store
C20_Witness ==
  /\ page = "workout"
  /\ inflight = {}
  /\ storage = Absent
  /\ activeWorkout = Null
  /\ Len(setEntries) >= 1
  /\ sessions[setEntries[1].sessionId].status = "active"

C22_PrefillLookupOncePerExercise ==
  [][/\ (/\ SameSession
         /\ Event(SkipSet) \/ Continuation(\E h \in inflight : CompleteSetResume(h))
         /\ activeWorkout'.currentExerciseIndex = activeWorkout.currentExerciseIndex
         /\ activeWorkout'.currentSetIndex # activeWorkout.currentSetIndex)
          => /\ ~getLastSetCalled'
             /\ prevExerciseIdRef' = prevExerciseIdRef
     /\ (/\ page' = "workout"
         /\ CurrentExercise(activeWorkout') # Undefined
         /\ \/ page # "workout"
            \/ /\ CurrentExercise(activeWorkout) # Undefined
               /\ CurrentExercise(activeWorkout).id # CurrentExercise(activeWorkout').id)
          => /\ getLastSetCalled'
             /\ prevExerciseIdRef' = CurrentExercise(activeWorkout').id]_vars

\* C22: the rest after the first of two sets of an exercise whose last set
\* was looked up when the exercise was entered
C22_Witness ==
  /\ page = "workout"
  /\ inflight = {}
  /\ activeWorkout # Null
  /\ phase = "rest"
  /\ activeWorkout.currentExerciseIndex = 0
  /\ activeWorkout.currentSetIndex = 1
  /\ Len(setEntries) = 1
  /\ prevExerciseIdRef = CurrentExercise(activeWorkout).id
  /\ ~getLastSetCalled

\* C23 (as stated): in the session of the walkthrough routine the first
\* Complete Set leaves rest(10) at set 2 of exercise 1, the second rest(30)
\* at set 1 of exercise 2, the third rest(10) at set 2 of exercise 2, the
\* fourth the phase 'complete' with completedSets.length = 4; Skip rest
\* returns to the set form without moving the cursor.
C23_RoutineWalkthrough ==
  [][/\ \A h \in inflight :
          (h.op = "completeSet" /\ CompleteSetResume(h)) =>
            /\ Len(setEntries) = 1 =>
                 /\ phase' = "rest" /\ restTimeLeft' = 10
                 /\ activeWorkout'.currentExerciseIndex = 0
                 /\ activeWorkout'.currentSetIndex = 1
            /\ Len(setEntries) = 2 =>
                 /\ phase' = "rest" /\ restTimeLeft' = 30
                 /\ activeWorkout'.currentExerciseIndex = 1
                 /\ activeWorkout'.currentSetIndex = 0
            /\ Len(setEntries) = 3 =>
                 /\ phase' = "rest" /\ restTimeLeft' = 10
                 /\ activeWorkout'.currentExerciseIndex = 1
                 /\ activeWorkout'.currentSetIndex = 1
            /\ Len(setEntries) = 4 =>
                 /\ phase' = "complete"
                 /\ Len(activeWorkout'.completedSets) = 4
     /\ SkipRest =>
          /\ phase' = "exercise"
          /\ activeWorkout' = activeWorkout]_vars

\* C24: start(routine) appends to the session store an active session with
\* the routine's id, and when it resumes writes a snapshot that loads as:
\* that session, workoutExercises equal to routine.exercises field by field
\* and in the same order, each with addedDuringWorkout false, the cursor at
\* (0, 0), no completed sets and isFreeWorkout false.
C24_StartFromRoutine ==
  [][/\ \A r \in routines :
          StartBegin(r) =>
            sessions' = Append(sessions, [id |-> Len(sessions) + 1,
                                          routineId |-> r.id, status |-> "active"])
     /\ \A h \in inflight :
          (h.op = "start" /\ h.state.routine # Undefined /\ StartResume(h)) =>
            LET st == Load(storage')
                r == h.state.routine
            IN /\ r \in routines
               /\ storage' # Absent
               /\ st.session = sessions[st.session.id]
               /\ st.session.routineId = r.id
               /\ st.session.status = "active"
               /\ st.routine = r
               /\ Len(st.workoutExercises) = Len(r.exercises)
               /\ \A i \in DOMAIN r.exercises :
                    /\ \A f \in DOMAIN r.exercises[i] :
                         st.workoutExercises[i][f] = r.exercises[i][f]
                    /\ DOMAIN st.workoutExercises[i] =
                         DOMAIN r.exercises[i] \cup {"addedDuringWorkout"}
                    /\ st.workoutExercises[i].addedDuringWorkout = FALSE
               /\ st.currentExerciseIndex = 0
               /\ st.currentSetIndex = 0
               /\ st.completedSets = <<>>
               /\ st.isFreeWorkout = FALSE
               /\ page' = "workout"
               /\ page # "workout" => activeWorkout' = st]_vars

\* C24: the workout page right after routine r1 was started
C24_Witness ==
  /\ page = "workout"
  /\ inflight = {}
  /\ activeWorkout # Null
  /\ storage = Serialize(activeWorkout)
  /\ activeWorkout.routine # Undefined
  /\ activeWorkout.routine.id = "r1"
  /\ sessions = <<[id |-> 1, routineId |-> "r1", status |-> "active"]>>
  /\ activeWorkout.session = sessions[1]
  /\ Len(activeWorkout.workoutExercises) = 2
  /\ activeWorkout.workoutExercises[1].exerciseId = "pushup"
  /\ activeWorkout.workoutExercises[2].exerciseId = "treadmill"
  /\ activeWorkout.currentExerciseIndex = 0
  /\ activeWorkout.currentSetIndex = 0
  /\ activeWorkout.completedSets = <<>>
  /\ setEntries = <<>>

C26_UnknownExerciseCompletable ==
  (/\ ExerciseFormShown
   /\ ~TargetsModalOpen
   /\ CanSuspend
   /\ CurrentWorkoutExercise(activeWorkout) # Undefined)
    => ENABLED CompleteSetBegin

\* C27: completeSet called while the hook holds no active session writes no
\* SetEntry to the set store and leaves the snapshot as it was (absent), both
\* before and after its await.
C27_NoSessionNoMutation ==
  [][/\ (activeWorkout = Null /\ \E entry \in HookEntries : CompleteSetCallBegin(entry))
          => (setEntries' = setEntries /\ storage' = storage)
     /\ \A h \in inflight :
          (h.op = "completeSetCall" /\ h.aw = Null /\ CompleteSetCallResume(h))
            => (setEntries' = setEntries /\ storage' = storage)]_vars

\* C28: no save loses what was saved before it.  From one snapshot of a
\* session to the next, the stored workoutExercises only grows at its end and
\* the stored cursor never goes back; and once no handler is in flight, the
\* snapshot's completedSets holds every SetEntry that was written to the set
\* store for its session.
C28_NoLostUpdate ==
  [][/\ (/\ storage.tag = "json"
         /\ storage'.tag = "json"
         /\ storage'.session.id = storage.session.id) =>
          /\ Len(storage'.workoutExercises) >= Len(storage.workoutExercises)
          /\ SubSeq(storage'.workoutExercises, 1, Len(storage.workoutExercises))
               = storage.workoutExercises
          /\ \/ storage'.currentExerciseIndex > storage.currentExerciseIndex
             \/ /\ storage'.currentExerciseIndex = storage.currentExerciseIndex
                /\ storage'.currentSetIndex >= storage.currentSetIndex
     /\ (inflight' = {} /\ storage'.tag = "json") =>
          \A i \in DOMAIN setEntries' :
            setEntries'[i].sessionId = storage'.session.id =>
              \E j \in DOMAIN storage'.completedSets :
                storage'.completedSets[j].id = setEntries'[i].id]_vars

\* C29: on the workout screen, with a non-empty workoutExercises and a phase
\* other than 'complete', currentExerciseIndex < workoutExercises.length;
\* in the phase 'exercise' there is a current WorkoutExercise and
\* currentSetIndex < its targetSets; both indices are never negative.
C29_CursorInRange ==
  activeWorkout # Null =>
    /\ activeWorkout.currentExerciseIndex >= 0
    /\ activeWorkout.currentSetIndex >= 0
    /\ (/\ page = "workout"
        /\ Len(activeWorkout.workoutExercises) > 0
        /\ phase # "complete") =>
          activeWorkout.currentExerciseIndex < Len(activeWorkout.workoutExercises)
    /\ (page = "workout" /\ phase = "exercise") =>
          /\ CurrentWorkoutExercise(activeWorkout) # Undefined
          /\ activeWorkout.currentSetIndex
               < CurrentWorkoutExercise(activeWorkout).targetSets

\* C29: the set form on the last set of the last exercise, in a session in
\* which a set was completed
C29_Witness ==
  /\ page = "workout"
  /\ activeWorkout # Null
  /\ phase = "exercise"
  /\ Len(setEntries) >= 1
  /\ Len(activeWorkout.workoutExercises) >= 2
  /\ activeWorkout.currentExerciseIndex = Len(activeWorkout.workoutExercises) - 1
  /\ CurrentWorkoutExercise(activeWorkout).targetSets = 2
  /\ activeWorkout.currentSetIndex = 1

\* C30: workoutExercises is append-only within a session: from one state of
\* the session to the next, in the mounted hook and in the stored snapshot,
\* the earlier list is a prefix of the later one.
C30_WorkoutExercisesAppendOnly ==
  [][/\ SameSession =>
          /\ Len(activeWorkout'.workoutExercises) >= Len(activeWorkout.workoutExercises)
          /\ SubSeq(activeWorkout'.workoutExercises, 1,
                    Len(activeWorkout.workoutExercises))
               = activeWorkout.workoutExercises
     /\ (/\ storage.tag = "json"
         /\ storage'.tag = "json"
         /\ storage'.session.id = storage.session.id) =>
          /\ Len(storage'.workoutExercises) >= Len(storage.workoutExercises)
          /\ SubSeq(storage'.workoutExercises, 1, Len(storage.workoutExercises))
               = storage.workoutExercises]_vars

\* C31: on the workout screen, whenever the phase is 'exercise' or 'cardio'
\* and the current exercise is found in the library, the phase is 'cardio'
\* exactly when the current exercise's type is 'cardio'.
C31_CardioPhaseIffCardioExercise ==
  (/\ page = "workout"
   /\ activeWorkout # Null
   /\ phase \in {"exercise", "cardio"}
   /\ CurrentExercise(activeWorkout) # Undefined)
    => (phase = "cardio" <=> CurrentExercise(activeWorkout).type = "cardio")

\* C32: when the set completed is the last of an exercise that is not the
\* last (for Complete Cardio: when the next exercise is not cardio), the rest
\* assigned is the routine's restBetweenExercises if the session has a
\* routine, 0 included, and settings.defaultRestBetweenExercises if it has
\* none.
C32_RestBetweenExercisesFromRoutine ==
  [][\A h \in inflight :
       (/\ h.live
        /\ \/ /\ h.op = "completeSet"
              /\ IsLastSet(h.aw)
              /\ ~IsLastExercise(h.aw)
              /\ CompleteSetResume(h)
           \/ /\ h.op = "cardioComplete"
              /\ ~IsLastExercise(h.aw)
              /\ ~(NextExercise(h.aw) # Undefined /\ NextExercise(h.aw).type = "cardio")
              /\ CardioCompleteResume(h))
         => restTimeLeft' = IF h.aw.routine # Undefined
                              THEN h.aw.routine.restBetweenExercises
                              ELSE settings.defaultRestBetweenExercises]_vars

\* The screen shows a session that end() has already persisted as ended
EndInvoked ==
  /\ page = "workout"
  /\ activeWorkout # Null
  /\ sessions[activeWorkout.session.id].status \in {"completed", "abandoned"}

\* C33: once end('completed') or end('abandoned') has been invoked for the
\* session on screen, no firing of the rest timer changes the countdown or
\* the phase, and none plays the rest-complete notification.
C33_NoTickAfterEnd ==
  [][(EndInvoked /\ Tick) =>
       /\ restTimeLeft' = restTimeLeft
       /\ phase' = phase
       /\ notifications' = notifications]_vars

\* C34: whenever no Complete Set or Complete Cardio is in flight, the
\* snapshot's completedSets holds exactly the SetEntry records of the set
\* store that carry the snapshot's session id.
C34_CompletedSetsMirrorsStore ==
  (/\ storage.tag = "json"
   /\ \A h \in inflight : h.op \notin {"completeSet", "cardioComplete", "completeSetCall"})
    => LET mirrored == Parse(storage).completedSets
       IN {mirrored[j] : j \in DOMAIN mirrored}
            = {setEntries[i] : i \in {k \in DOMAIN setEntries :
                                        setEntries[k].sessionId = storage.session.id}}

\* C35: the phase is 'empty' only while workoutExercises is empty; a session
\* whose workoutExercises is empty, in the mounted hook or in the snapshot, is
\* a free workout without a routine; a session started from a routine never
\* has zero workoutExercises.
C35_EmptyOnlyForFreeWorkout ==
  /\ activeWorkout # Null =>
       /\ (page = "workout" /\ phase = "empty") =>
            Len(activeWorkout.workoutExercises) = 0
       /\ Len(activeWorkout.workoutExercises) = 0 =>
            (activeWorkout.isFreeWorkout /\ activeWorkout.routine = Undefined)
       /\ (~activeWorkout.isFreeWorkout \/ activeWorkout.routine # Undefined) =>
            Len(activeWorkout.workoutExercises) > 0
  /\ (storage.tag = "json" /\ Len(storage.workoutExercises) = 0) =>
       (storage.isFreeWorkout /\ "routine" \notin DOMAIN storage)

\* C35: a free workout whose first exercise was added (the phase has left
\* 'empty'), reloaded from its snapshot
C35_Witness ==
  /\ page = "workout"
  /\ activeWorkout # Null
  /\ activeWorkout.isFreeWorkout
  /\ Len(activeWorkout.workoutExercises) = 1
  /\ phase \in {"exercise", "cardio"}
  /\ inflight = {}
  /\ storage.tag = "json"
  /\ Len(storage.workoutExercises) = 1

\* C36: the routine held by a running session, in the mounted hook and in
\* the snapshot as it is read back, is the routine of the library with the
\* session's routineId, with the exercises and targets it has there: no
\* operation of the session changes it.
C36_RoutineUntouched ==
  /\ (activeWorkout # Null /\ activeWorkout.routine # Undefined) =>
       \E r \in routines :
         /\ r.id = activeWorkout.session.routineId
         /\ activeWorkout.routine = r
  /\ (storage.tag = "json" /\ "routine" \in DOMAIN storage) =>
       \E r \in routines :
         /\ r.id = storage.session.routineId
         /\ Parse(storage).routine = r

\* C36: a session of routine r1 with an exercise added after the routine's
\* two and a set completed, while the routine it holds still has two
C36_Witness ==
  /\ page = "workout"
  /\ activeWorkout # Null
  /\ activeWorkout.routine # Undefined
  /\ activeWorkout.routine.id = "r1"
  /\ Len(activeWorkout.routine.exercises) = 2
  /\ Len(activeWorkout.workoutExercises) = 3
  /\ activeWorkout.currentSetIndex = 1
  /\ Len(setEntries) = 1
  /\ storage.tag = "json"
  /\ Len(storage.workoutExercises) = 3
  /\ Len(storage.routine.exercises) = 2

\* C37: a reload of the application while the workout screen is in the phase
\* 'complete' and end() has not been invoked brings the workout screen back
\* in the phase 'complete', with the cursor where it was, so that Complete
\* Set is not offered again for the last set.
C37_ReloadKeepsComplete ==
  [][(/\ page = "workout"
      /\ activeWorkout # Null
      /\ phase = "complete"
      /\ inflight = {}
      /\ sessions[activeWorkout.session.id].status = "active"
      /\ \E p \in Pages : OpenUrl(p, FALSE)
      /\ page' = "workout") =>
       /\ phase' = "complete"
       /\ activeWorkout'.currentExerciseIndex = activeWorkout.currentExerciseIndex
       /\ activeWorkout'.currentSetIndex = activeWorkout.currentSetIndex]_vars

\* C38: within one session at most one SetEntry is persisted per set.  No
\* two suspended Complete Set handlers were invoked on the same cursor of
\* the same session; and while the exercises of the running session are
\* pairwise different (so that exerciseId tells the position), no two
\* persisted entries of the session have the same exerciseId and setIndex.
C38_OneEntryPerSet ==
  /\ \A h1, h2 \in inflight :
       (/\ h1.op = "completeSet"
        /\ h2.op = "completeSet"
        /\ h1.aw.session.id = h2.aw.session.id
        /\ h1.aw.currentExerciseIndex = h2.aw.currentExerciseIndex
        /\ h1.aw.currentSetIndex = h2.aw.currentSetIndex)
         => h1.entry.id = h2.entry.id
  /\ (/\ activeWorkout # Null
      /\ \A i, j \in DOMAIN activeWorkout.workoutExercises :
           i # j => activeWorkout.workoutExercises[i].exerciseId
                      # activeWorkout.workoutExercises[j].exerciseId) =>
       \A i, j \in DOMAIN setEntries :
         (/\ i # j
          /\ setEntries[i].sessionId = activeWorkout.session.id
          /\ setEntries[j].sessionId = activeWorkout.session.id
          /\ setEntries[i].exerciseId = setEntries[j].exerciseId)
           => setEntries[i].setIndex # setEntries[j].setIndex

\* C39: at every point a snapshot is in localStorage if and only if the
\* session store holds the snapshot's session with status 'active': a
\* snapshot's session is persisted and active, and a persisted active
\* session has its snapshot in localStorage.
C39_SnapshotIffActive ==
  /\ storage.tag = "json" =>
       /\ storage.session.id \in DOMAIN sessions
       /\ sessions[storage.session.id].status = "active"
  /\ \A id \in DOMAIN sessions :
       sessions[id].status = "active" =>
         /\ storage # Absent
         /\ storage.tag = "json" => storage.session.id = id

\* C40: a session persisted with status 'completed' or 'abandoned' keeps
\* that record, status and endedAt, in every later step, whatever end()
\* invocations follow or overlap.
C40_EndedSessionFrozen ==
  [][\A id \in DOMAIN sessions :
       sessions[id].status \in {"completed", "abandoned"} =>
         /\ id \in DOMAIN sessions'
         /\ sessions'[id] = sessions[id]]_vars

====
